---------------------------- MODULE Spec2Model ----------------------------
(***************************************************************************)
(* Model of the maroto grid components: the column (pkg/components/col),   *)
(* the matrix code and bar code leaves (pkg/components/code), the config   *)
(* builder, and the row that holds columns.                                *)
(*                                                                         *)
(* Pointers are modelled as follows.  A *entity.Config is an index into    *)
(* the heap cfgs, 0 being the nil pointer.  A *props.Cell is a sequence    *)
(* of length at most one, <<>> being the nil pointer.  A column is an      *)
(* index into the heap cols.  A leaf is owned by the column it was added   *)
(* to and is stored inside that column's components.  A Go map is the set  *)
(* of its <<key, value>> pairs, values written as strings; the nil map and *)
(* the empty map are both {}.  A float width is the exact ratio            *)
(* <<numerator, denominator>>.                                             *)
(***************************************************************************)
EXTENDS Integers, Sequences, FiniteSets, TLC

VARIABLES
    builder,   \* the config builder: [maxGridSize]
    cfgs,      \* heap of the entity.Config values built so far
    cols,      \* heap of the columns created so far
    rows,      \* heap of the rows created so far
    hist,      \* per column, what the caller did: constructor arguments, SetConfig calls
    last       \* the last call made, with what it returned and what it sent to the provider

vars == <<builder, cfgs, cols, rows, hist, last>>

-----------------------------------------------------------------------------
(* Bounds of the model.  Three callers are followed: Spec builds columns  *)
(* of leaves, SpecSize builds configs and sizes columns against them,      *)
(* SpecRow builds one row of columns and renders it, SpecProp builds one   *)
(* row of columns and configures it, SpecOnce configures each column once. *)

ColCols == 1        \* Spec: columns
ColLeaves == 2      \* Spec: leaves, all columns together
ColCfgs == 1        \* Spec: configs built
SizeCols == 1       \* SpecSize: columns
SizeLeaves == 1     \* SpecSize: leaves, all columns together
SizeCfgs == 2       \* SpecSize: configs built
RowCols == 2        \* SpecRow: columns of the row
RowLeaves == 2      \* SpecRow: leaves, all columns together
RowCfgs == 1        \* SpecRow: configs built
PropCols == 2       \* SpecProp: columns of the row
PropLeaves == 2     \* SpecProp: leaves, all columns together
PropCfgs == 2       \* SpecProp: configs built

(* Inputs the callers draw from *)

SizeArgs == {<<>>, <<6>>, <<13>>}
TreeSizeArgs == {<<>>, <<6>>}
GridArgs == {-1, 8}
Rect50 == [Percent |-> 50, Center |-> TRUE]
MatrixInputs == {<<"12345", <<Rect50>>>>}
BarInputs == {<<"67890", <<>>>>}
Codes == <<"12345", "67890", "13579", "24680">>
StyleArgs == {<<>>, <<[BorderType |-> "full"]>>}
PageCells == {[Width |-> <<200, 1>>, Height |-> 10]}
Heights == {10}

(* pagesize.DefaultMaxGridSum *)
DefaultMaxGridSum == 12

NilConfig == 0

-----------------------------------------------------------------------------
(* props: normalisation and export of the property objects *)

ZeroRect == [Percent |-> 0, Center |-> FALSE]

MakeValid(p) ==
    [p EXCEPT !.Percent = IF p.Percent <= 0 \/ p.Percent > 100 THEN 100 ELSE p.Percent]

RectToMap(p) ==
    (IF p.Percent # 0 THEN {<<"prop_percent", ToString(p.Percent)>>} ELSE {})
    \cup (IF p.Center THEN {<<"prop_center", "true">>} ELSE {})

CellToMap(style) ==
    IF style = <<>> THEN {}
    ELSE IF style[1].BorderType # "" THEN {<<"prop_border_type", style[1].BorderType>>}
    ELSE {}

-----------------------------------------------------------------------------
(* go-tree node *)

NodeNew(str) == [Data |-> str, Nexts |-> <<>>]

AddNext(n, inner) == [n EXCEPT !.Nexts = Append(@, inner)]

-----------------------------------------------------------------------------
(* Results of calls that may panic *)

Ok(v) == [status |-> "ok", val |-> v]
Panic == [status |-> "panic", val |-> 0]

-----------------------------------------------------------------------------
(* Leaf components: matrixCode and barcode *)

NewMatrix(code, barcodeProps) ==
    [kind |-> "matrixcode",
     code |-> code,
     prop |-> MakeValid(IF Len(barcodeProps) > 0 THEN barcodeProps[1] ELSE ZeroRect),
     config |-> NilConfig]

MatrixRender(m, cell) ==
    <<[op |-> "AddMatrixCode", code |-> m.code, cell |-> cell, prop |-> m.prop]>>

MatrixGetStructure(m) ==
    NodeNew([Type |-> "matrixcode", Value |-> m.code, Details |-> RectToMap(m.prop)])

MatrixSetConfig(m, config) == [m EXCEPT !.config = config]

NewBar(code, ps) ==
    [kind |-> "barcode",
     code |-> code,
     prop |-> MakeValid(IF Len(ps) > 0 THEN ps[1] ELSE ZeroRect),
     config |-> NilConfig]

BarRender(b, cell) ==
    <<[op |-> "AddBarCode", code |-> b.code, cell |-> cell, prop |-> b.prop]>>

\* The Structure literal sets Type and Value only: Details stays the nil map.
BarGetStructure(b) ==
    NodeNew([Type |-> "barcode", Value |-> b.code, Details |-> {}])

BarSetConfig(b, config) == [b EXCEPT !.config = config]

(* Interface dispatch on core.Component *)

ComponentRender(x, cell) ==
    IF x.kind = "matrixcode" THEN MatrixRender(x, cell) ELSE BarRender(x, cell)

ComponentGetStructure(x) ==
    IF x.kind = "matrixcode" THEN MatrixGetStructure(x) ELSE BarGetStructure(x)

ComponentSetConfig(x, config) ==
    IF x.kind = "matrixcode" THEN MatrixSetConfig(x, config) ELSE BarSetConfig(x, config)

-----------------------------------------------------------------------------
(* col *)

New(size) ==
    IF Len(size) = 0
    THEN [size |-> 0, isMax |-> TRUE, components |-> <<>>,
          config |-> NilConfig, style |-> <<>>]
    ELSE [size |-> size[1], isMax |-> FALSE, components |-> <<>>,
          config |-> NilConfig, style |-> <<>>]

\* Add with the new components put in front of the stored ones
AddInFront(c, components) == [c EXCEPT !.components = components \o @]

Add(c, components) == [c EXCEPT !.components = @ \o components]

\* c.config.MaxGridSize dereferences c.config: a nil config is a run-time panic.
GetSize(c) ==
    IF c.isMax
    THEN IF c.config = NilConfig THEN Panic ELSE Ok(cfgs[c.config].MaxGridSize)
    ELSE Ok(c.size)

RECURSIVE AddStructures(_, _)
AddStructures(node, components) ==
    IF components = <<>> THEN node
    ELSE AddStructures(AddNext(node, ComponentGetStructure(Head(components))),
                       Tail(components))

\* GetStructure exporting the resolved size, c.GetSize(), as the node's value
GetStructureResolved(c) ==
    IF GetSize(c).status = "panic" THEN Panic
    ELSE LET details == CellToMap(c.style)
             str == [Type |-> "col",
                     Value |-> GetSize(c).val,
                     Details |-> IF c.isMax THEN details \cup {<<"is_max", "true">>}
                                 ELSE details]
         IN Ok(AddStructures(NodeNew(str), c.components))

GetStructure(c) ==
    LET details == CellToMap(c.style)
        str == [Type |-> "col",
                Value |-> c.size,
                Details |-> IF c.isMax THEN details \cup {<<"is_max", "true">>}
                            ELSE details]
    IN Ok(AddStructures(NodeNew(str), c.components))

RECURSIVE RenderComponents(_, _)
RenderComponents(components, cell) ==
    IF components = <<>> THEN <<>>
    ELSE ComponentRender(Head(components), cell) \o RenderComponents(Tail(components), cell)

\* Render drawing the children before the column's own cell
RenderChildrenFirst(c, cell, createCell) ==
    RenderComponents(c.components, cell)
    \o (IF createCell
        THEN <<[op |-> "CreateCol", width |-> cell.Width, height |-> cell.Height,
                config |-> c.config, style |-> c.style]>>
        ELSE <<>>)

Render(c, cell, createCell) ==
    (IF createCell
     THEN <<[op |-> "CreateCol", width |-> cell.Width, height |-> cell.Height,
             config |-> c.config, style |-> c.style]>>
     ELSE <<>>)
    \o RenderComponents(c.components, cell)

\* SetConfig keeping the config the column already holds
SetConfigKeepFirst(c, config) ==
    IF c.config # NilConfig THEN c
    ELSE [c EXCEPT !.config = config,
                   !.components = [j \in DOMAIN @ |-> ComponentSetConfig(@[j], config)]]

\* SetConfig storing the config without handing it to the children
SetConfigNoPropagate(c, config) == [c EXCEPT !.config = config]

SetConfig(c, config) ==
    [c EXCEPT !.config = config,
              !.components = [j \in DOMAIN @ |-> ComponentSetConfig(@[j], config)]]

WithStyle(c, style) == [c EXCEPT !.style = style]

(* Convenience constructors of the leaves *)

NewMatrixCol(size, code, ps) == Add(New(<<size>>), <<NewMatrix(code, ps)>>)

NewBarCol(size, code, ps) == Add(New(<<size>>), <<NewBar(code, ps)>>)

-----------------------------------------------------------------------------
(* config builder *)

NewBuilder == [maxGridSize |-> DefaultMaxGridSum]

WithMaxGridSize(b, maxGridSize) ==
    IF maxGridSize < 0 THEN b ELSE [b EXCEPT !.maxGridSize = maxGridSize]

Build(b) == [MaxGridSize |-> b.maxGridSize]

-----------------------------------------------------------------------------
(* row: holds columns by reference, propagates the config, renders each    *)
(* column into a cell whose width is the column's share of the grid        *)

Range(s) == {s[j] : j \in DOMAIN s}

RowNew(height) == [height |-> height, cols |-> <<>>, config |-> NilConfig]

RowAdd(r, ids) == [r EXCEPT !.cols = @ \o ids]

RowSetConfig(r, config) == [r EXCEPT !.config = config]

RowSetConfigCols(r, config, heap) ==
    [i \in DOMAIN heap |->
        IF i \in Range(r.cols) THEN SetConfig(heap[i], config) ELSE heap[i]]

ColCell(r, c, cell) ==
    [Width |-> <<cell.Width[1] * GetSize(c).val,
                 cell.Width[2] * cfgs[r.config].MaxGridSize>>,
     Height |-> r.height]

RECURSIVE RowRenderCols(_, _, _)
RowRenderCols(r, ids, cell) ==
    IF ids = <<>> THEN Ok(<<>>)
    ELSE IF GetSize(cols[Head(ids)]).status = "panic" THEN Panic
    ELSE LET rest == RowRenderCols(r, Tail(ids), cell)
         IN IF rest.status = "panic" THEN Panic
            ELSE Ok(Render(cols[Head(ids)], ColCell(r, cols[Head(ids)], cell), TRUE)
                    \o rest.val)

RowRender(r, cell) ==
    IF r.config = NilConfig THEN Panic ELSE RowRenderCols(r, r.cols, cell)

NewMatrixRow(height, code, ps, id) ==
    [c |-> Add(New(<<>>), <<NewMatrix(code, ps)>>),
     r |-> RowAdd(RowNew(height), <<id>>)]

NewBarRow(height, code, ps, id) ==
    [c |-> Add(New(<<0>>), <<NewBar(code, ps)>>),
     r |-> RowAdd(RowNew(height), <<id>>)]

-----------------------------------------------------------------------------
(* The callers: they build configs, columns, leaves and a row and call     *)
(* their methods in any order                                              *)

FreshLeaves ==
    {NewMatrix(in[1], in[2]) : in \in MatrixInputs}
    \cup {NewBar(in[1], in[2]) : in \in BarInputs}

LeafBatches == {<<x>> : x \in FreshLeaves} \cup {<<x, y>> : x, y \in FreshLeaves}

\* The leaf a caller of SpecRow adds at position n of a column: its content
\* states the position, matrix codes and bar codes alternate.
LeafAt(n) ==
    IF n % 2 = 1 THEN NewMatrix(Codes[n], <<>>) ELSE NewBar(Codes[n], <<>>)

Tag(components) == [j \in DOMAIN components |-> <<components[j].kind, components[j].code>>]

NewHist(size, components) ==
    [args |-> size, added |-> Tag(components), lastCfg |-> NilConfig]

NoteSetConfig(h, config) == [h EXCEPT !.lastCfg = config]

RECURSIVE CountLeaves(_)
CountLeaves(heap) ==
    IF heap = <<>> THEN 0 ELSE Len(Head(heap).components) + CountLeaves(Tail(heap))

Init ==
    /\ builder = NewBuilder
    /\ cfgs = <<>>
    /\ cols = <<>>
    /\ rows = <<>>
    /\ hist = <<>>
    /\ last = [op |-> "NewBuilder"]

DoWithMaxGridSize ==
    \E g \in GridArgs :
        /\ builder' = WithMaxGridSize(builder, g)
        /\ last' = [op |-> "WithMaxGridSize", arg |-> g]
        /\ UNCHANGED <<cfgs, cols, rows, hist>>

DoBuild(maxCfgs) ==
    /\ Len(cfgs) < maxCfgs
    /\ cfgs' = Append(cfgs, Build(builder))
    /\ last' = [op |-> "Build", tgt |-> Len(cfgs) + 1]
    /\ UNCHANGED <<builder, cols, rows, hist>>

DoNew(sizes, maxCols) ==
    \E size \in sizes :
        /\ Len(cols) < maxCols
        /\ cols' = Append(cols, New(size))
        /\ hist' = Append(hist, NewHist(size, <<>>))
        /\ last' = [op |-> "New", tgt |-> Len(cols) + 1]
        /\ UNCHANGED <<builder, cfgs, rows>>

DoNewMatrixCol(maxCols, maxLeaves) ==
    \E size \in {a[1] : a \in TreeSizeArgs \ {<<>>}}, in \in MatrixInputs :
        /\ Len(cols) < maxCols
        /\ CountLeaves(cols) < maxLeaves
        /\ cols' = Append(cols, NewMatrixCol(size, in[1], in[2]))
        /\ hist' = Append(hist, NewHist(<<size>>, <<NewMatrix(in[1], in[2])>>))
        /\ last' = [op |-> "NewMatrixCol", tgt |-> Len(cols) + 1, size |-> size, in |-> in]
        /\ UNCHANGED <<builder, cfgs, rows>>

DoNewBarCol(maxCols, maxLeaves) ==
    \E size \in {a[1] : a \in TreeSizeArgs \ {<<>>}}, in \in BarInputs :
        /\ Len(cols) < maxCols
        /\ CountLeaves(cols) < maxLeaves
        /\ cols' = Append(cols, NewBarCol(size, in[1], in[2]))
        /\ hist' = Append(hist, NewHist(<<size>>, <<NewBar(in[1], in[2])>>))
        /\ last' = [op |-> "NewBarCol", tgt |-> Len(cols) + 1, size |-> size, in |-> in]
        /\ UNCHANGED <<builder, cfgs, rows>>

\* c.Add(leaves...) with one or two fresh leaves of any kind
DoAdd(maxLeaves) ==
    \E i \in DOMAIN cols, components \in LeafBatches :
        /\ CountLeaves(cols) + Len(components) <= maxLeaves
        /\ cols' = [cols EXCEPT ![i] = Add(@, components)]
        /\ hist' = [hist EXCEPT ![i].added = @ \o Tag(components)]
        /\ last' = [op |-> "Add", tgt |-> i]
        /\ UNCHANGED <<builder, cfgs, rows>>

\* c.Add(leaf) with the leaf that states its position
DoAddNext(maxLeaves) ==
    \E i \in DOMAIN cols :
        /\ CountLeaves(cols) < maxLeaves
        /\ Len(cols[i].components) < Len(Codes)
        /\ LET components == <<LeafAt(Len(cols[i].components) + 1)>>
           IN /\ cols' = [cols EXCEPT ![i] = Add(@, components)]
              /\ hist' = [hist EXCEPT ![i].added = @ \o Tag(components)]
        /\ last' = [op |-> "Add", tgt |-> i]
        /\ UNCHANGED <<builder, cfgs, rows>>

DoWithStyle ==
    \E i \in DOMAIN cols, style \in StyleArgs :
        /\ cols' = [cols EXCEPT ![i] = WithStyle(@, style)]
        /\ last' = [op |-> "WithStyle", tgt |-> i]
        /\ UNCHANGED <<builder, cfgs, rows, hist>>

DoSetConfig ==
    \E i \in DOMAIN cols, config \in DOMAIN cfgs :
        /\ cols' = [cols EXCEPT ![i] = SetConfig(@, config)]
        /\ hist' = [hist EXCEPT ![i] = NoteSetConfig(@, config)]
        /\ last' = [op |-> "SetConfig", tgt |-> i, config |-> config]
        /\ UNCHANGED <<builder, cfgs, rows>>

\* The caller that configures a column once: c.SetConfig(config) on a column
\* that no SetConfig call has reached yet
DoSetConfigOnce ==
    \E i \in DOMAIN cols, config \in DOMAIN cfgs :
        /\ hist[i].lastCfg = NilConfig
        /\ cols' = [cols EXCEPT ![i] = SetConfig(@, config)]
        /\ hist' = [hist EXCEPT ![i] = NoteSetConfig(@, config)]
        /\ last' = [op |-> "SetConfig", tgt |-> i, config |-> config]
        /\ UNCHANGED <<builder, cfgs, rows>>

DoGetSize ==
    \E i \in DOMAIN cols :
        /\ last' = [op |-> "GetSize", tgt |-> i, out |-> GetSize(cols[i])]
        /\ UNCHANGED <<builder, cfgs, cols, rows, hist>>

DoGetStructure ==
    \E i \in DOMAIN cols :
        /\ last' = [op |-> "GetStructure", tgt |-> i, out |-> GetStructure(cols[i])]
        /\ UNCHANGED <<builder, cfgs, cols, rows, hist>>

DoLeafGetStructure ==
    \E i \in DOMAIN cols :
        \E j \in DOMAIN cols[i].components :
            /\ last' = [op |-> "LeafGetStructure", tgt |-> i, idx |-> j,
                        out |-> ComponentGetStructure(cols[i].components[j])]
            /\ UNCHANGED <<builder, cfgs, cols, rows, hist>>

DoRender ==
    \E i \in DOMAIN cols, cell \in PageCells, createCell \in BOOLEAN :
        /\ last' = [op |-> "Render", tgt |-> i, cell |-> cell, createCell |-> createCell,
                    calls |-> Render(cols[i], cell, createCell)]
        /\ UNCHANGED <<builder, cfgs, cols, rows, hist>>

(* The row of SpecRow: row.New(height), then r.Add(col.New(size...)) *)

DoRowNew ==
    \E height \in Heights :
        /\ rows = <<>>
        /\ rows' = <<RowNew(height)>>
        /\ last' = [op |-> "RowNew", tgt |-> 1]
        /\ UNCHANGED <<builder, cfgs, cols, hist>>

DoNewMatrixRow(maxCols, maxLeaves) ==
    \E height \in Heights, in \in {<<Codes[1], <<>>>>} :
        /\ rows = <<>>
        /\ Len(cols) < maxCols
        /\ CountLeaves(cols) < maxLeaves
        /\ LET made == NewMatrixRow(height, in[1], in[2], Len(cols) + 1)
           IN /\ cols' = Append(cols, made.c)
              /\ rows' = <<made.r>>
              /\ hist' = Append(hist, NewHist(<<>>, made.c.components))
        /\ last' = [op |-> "NewMatrixRow", tgt |-> 1, height |-> height, in |-> in]
        /\ UNCHANGED <<builder, cfgs>>

DoNewBarRow(maxCols, maxLeaves) ==
    \E height \in Heights, in \in {<<Codes[1], <<>>>>} :
        /\ rows = <<>>
        /\ Len(cols) < maxCols
        /\ CountLeaves(cols) < maxLeaves
        /\ LET made == NewBarRow(height, in[1], in[2], Len(cols) + 1)
           IN /\ cols' = Append(cols, made.c)
              /\ rows' = <<made.r>>
              /\ hist' = Append(hist, NewHist(<<0>>, made.c.components))
        /\ last' = [op |-> "NewBarRow", tgt |-> 1, height |-> height, in |-> in]
        /\ UNCHANGED <<builder, cfgs>>

DoRowAddNew(sizes, maxCols) ==
    \E r \in DOMAIN rows, size \in sizes :
        /\ Len(cols) < maxCols
        /\ cols' = Append(cols, New(size))
        /\ rows' = [rows EXCEPT ![r] = RowAdd(@, <<Len(cols) + 1>>)]
        /\ hist' = Append(hist, NewHist(size, <<>>))
        /\ last' = [op |-> "RowAdd", tgt |-> r]
        /\ UNCHANGED <<builder, cfgs>>

DoRowSetConfig ==
    \E r \in DOMAIN rows, config \in DOMAIN cfgs :
        /\ rows' = [rows EXCEPT ![r] = RowSetConfig(@, config)]
        /\ cols' = RowSetConfigCols(rows[r], config, cols)
        /\ hist' = [i \in DOMAIN hist |->
                        IF i \in Range(rows[r].cols) THEN NoteSetConfig(hist[i], config)
                        ELSE hist[i]]
        /\ last' = [op |-> "RowSetConfig", tgt |-> r, config |-> config,
                    was |-> rows[r].config]
        /\ UNCHANGED <<builder, cfgs>>

DoRowRender ==
    \E r \in DOMAIN rows, cell \in PageCells :
        /\ last' = [op |-> "RowRender", tgt |-> r, cell |-> cell,
                    out |-> RowRender(rows[r], cell)]
        /\ UNCHANGED <<builder, cfgs, cols, rows, hist>>

(* Spec: columns of leaves *)

Next ==
    \/ DoBuild(ColCfgs)
    \/ DoNew(TreeSizeArgs, ColCols)
    \/ DoNewMatrixCol(ColCols, ColLeaves)
    \/ DoNewBarCol(ColCols, ColLeaves)
    \/ DoNewMatrixRow(ColCols, ColLeaves)
    \/ DoNewBarRow(ColCols, ColLeaves)
    \/ DoAdd(ColLeaves)
    \/ DoWithStyle
    \/ DoSetConfig
    \/ DoGetStructure
    \/ DoLeafGetStructure

Spec == Init /\ [][Next]_vars

(* SpecSize: configs of several grid sizes, columns sized against them *)

NextSize ==
    \/ DoWithMaxGridSize
    \/ DoBuild(SizeCfgs)
    \/ DoNew(SizeArgs, SizeCols)
    \/ DoAddNext(SizeLeaves)
    \/ DoWithStyle
    \/ DoSetConfig
    \/ DoGetSize

SpecSize == Init /\ [][NextSize]_vars

(* SpecRow: one row, its columns and their leaves *)

NextRow ==
    \/ DoBuild(RowCfgs)
    \/ DoRowNew
    \/ DoNewMatrixRow(RowCols, RowLeaves)
    \/ DoNewBarRow(RowCols, RowLeaves)
    \/ DoRowAddNew(TreeSizeArgs, RowCols)
    \/ DoAddNext(RowLeaves)
    \/ DoSetConfig
    \/ DoRowSetConfig
    \/ DoRender
    \/ DoRowRender

SpecRow == Init /\ [][NextRow]_vars

(* SpecProp: one row, its columns and their leaves, configured and         *)
(* configured again                                                        *)

NextProp ==
    \/ DoBuild(PropCfgs)
    \/ DoRowNew
    \/ DoNewMatrixRow(PropCols, PropLeaves)
    \/ DoNewBarRow(PropCols, PropLeaves)
    \/ DoRowAddNew({<<6>>}, PropCols)
    \/ DoAddNext(PropLeaves)
    \/ DoSetConfig
    \/ DoRowSetConfig

SpecProp == Init /\ [][NextProp]_vars

(* SpecOnce: columns whose config is set once, before or after the leaves *)
(* are added                                                               *)

NextOnce ==
    \/ DoBuild(ColCfgs)
    \/ DoNew(TreeSizeArgs, ColCols)
    \/ DoAdd(ColLeaves)
    \/ DoSetConfigOnce
    \/ DoGetSize
    \/ DoRender

SpecOnce == Init /\ [][NextOnce]_vars

-----------------------------------------------------------------------------
(* Properties *)

Configured(i) == hist[i].lastCfg # NilConfig

AutoMax(i) == hist[i].args = <<>>

LeafOp(kind) == IF kind = "matrixcode" THEN "AddMatrixCode" ELSE "AddBarCode"

HoldsConfig(c, config) ==
    /\ c.config = config
    /\ \A j \in DOMAIN c.components : c.components[j].config = config

\* The calls after position off are the leaves of column i, in the order
\* they were added, each drawn into cell.
LeafCallsInOrder(calls, off, i, cell) ==
    \A j \in DOMAIN hist[i].added :
        /\ calls[off + j].op = LeafOp(hist[i].added[j][1])
        /\ calls[off + j].code = hist[i].added[j][2]
        /\ calls[off + j].cell = cell

CountOp(calls, ops) == Cardinality({n \in DOMAIN calls : calls[n].op \in ops})

RECURSIVE CallsBefore(_, _)
CallsBefore(ids, n) ==
    IF n = 1 THEN 0
    ELSE CallsBefore(ids, n - 1) + 1 + Len(cols[ids[n - 1]].components)

\* C1: GetSize on an auto-max column that no SetConfig call has reached fails
\* with a configuration-not-set error: it neither panics nor returns a size.
C1_GetSizeBeforeSetConfig ==
    (last.op = "GetSize" /\ AutoMax(last.tgt) /\ ~Configured(last.tgt))
        => last.out.status = "config_not_set"

\* C2: GetSize returns the size the column was created with, whatever the
\* config, and for a column created without a size the MaxGridSize of the
\* config most recently passed to SetConfig.
C2_GetSize ==
    last.op = "GetSize" =>
        /\ ~AutoMax(last.tgt) => last.out = Ok(hist[last.tgt].args[1])
        /\ (AutoMax(last.tgt) /\ Configured(last.tgt))
               => last.out = Ok(cfgs[hist[last.tgt].lastCfg].MaxGridSize)

\* An auto-max column that holds a leaf and a style is sized after its
\* config was replaced by one of another grid size.
C2_Witness ==
    /\ last.op = "GetSize"
    /\ AutoMax(last.tgt)
    /\ hist[last.tgt].lastCfg = 2
    /\ cfgs[1].MaxGridSize # cfgs[2].MaxGridSize
    /\ last.out = Ok(cfgs[2].MaxGridSize)
    /\ cols[last.tgt].components # <<>>
    /\ cols[last.tgt].style # <<>>

\* C3: right after SetConfig(cfg) on a column, the column and all its leaves
\* hold cfg; right after SetConfig(cfg) on a row, the row, all its columns
\* and all their leaves hold cfg.
C3_ConfigPropagation ==
    /\ last.op = "SetConfig" => HoldsConfig(cols[last.tgt], last.config)
    /\ last.op = "RowSetConfig" =>
           /\ rows[last.tgt].config = last.config
           /\ \A i \in Range(rows[last.tgt].cols) : HoldsConfig(cols[i], last.config)

\* SetConfig on a row that held another config, the row having two columns,
\* one of them holding two leaves.
C3_Witness ==
    /\ last.op = "RowSetConfig"
    /\ last.was \notin {NilConfig, last.config}
    /\ Len(rows[last.tgt].cols) = 2
    /\ \E i \in Range(rows[last.tgt].cols) :
           /\ Len(cols[i].components) = 2
           /\ HoldsConfig(cols[i], last.config)

\* C4: a column rendered with createCell draws CreateCol once, with the
\* cell's width and height and its own config and style, and then its
\* leaves once each in the order they were added, all into the same cell;
\* without createCell it draws the leaves only.  A row draws its columns in
\* order, so k CreateCol calls and one leaf call per leaf.
C4_RenderCalls ==
    /\ last.op = "Render" =>
           LET c == cols[last.tgt]
               off == IF last.createCell THEN 1 ELSE 0
           IN /\ Len(last.calls) = off + Len(c.components)
              /\ CountOp(last.calls, {"CreateCol"}) = off
              /\ last.createCell =>
                     /\ last.calls[1].op = "CreateCol"
                     /\ last.calls[1].width = last.cell.Width
                     /\ last.calls[1].height = last.cell.Height
                     /\ last.calls[1].config = c.config
                     /\ last.calls[1].style = c.style
              /\ LeafCallsInOrder(last.calls, off, last.tgt, last.cell)
    /\ (last.op = "RowRender" /\ last.out.status = "ok") =>
           LET ids == rows[last.tgt].cols
               calls == last.out.val
           IN /\ CountOp(calls, {"CreateCol"}) = Len(ids)
              /\ CountOp(calls, {"AddMatrixCode", "AddBarCode"})
                     = CallsBefore(ids, Len(ids) + 1) - Len(ids)
              /\ Len(calls) = CallsBefore(ids, Len(ids) + 1)
              /\ \A n \in DOMAIN ids :
                     LET at == CallsBefore(ids, n) + 1
                     IN /\ calls[at].op = "CreateCol"
                        /\ calls[at].height = rows[last.tgt].height
                        /\ calls[at].config = cols[ids[n]].config
                        /\ calls[at].style = cols[ids[n]].style
                        /\ LeafCallsInOrder(calls, at, ids[n],
                               [Width |-> calls[at].width, Height |-> calls[at].height])

\* A row of two columns is rendered, the first column holding a leaf.
C4_Witness ==
    /\ last.op = "RowRender"
    /\ last.out.status = "ok"
    /\ Len(rows[last.tgt].cols) = 2
    /\ cols[rows[last.tgt].cols[1]].components # <<>>
    /\ Len(last.out.val) = 4

\* C5: GetStructure of a column returns a node of type "col" with one child
\* per leaf, as many as were added and in the order they were added.
C5_StructureMirrors ==
    last.op = "GetStructure" =>
        /\ last.out.val.Data.Type = "col"
        /\ Len(last.out.val.Nexts) = Len(hist[last.tgt].added)
        /\ \A j \in DOMAIN hist[last.tgt].added :
               /\ last.out.val.Nexts[j].Data.Type = hist[last.tgt].added[j][1]
               /\ last.out.val.Nexts[j].Data.Value = hist[last.tgt].added[j][2]
               /\ last.out.val.Nexts[j].Nexts = <<>>

\* GetStructure of a column to which two different leaves were added.
C5_Witness ==
    /\ last.op = "GetStructure"
    /\ Len(hist[last.tgt].added) = 2
    /\ hist[last.tgt].added[1] # hist[last.tgt].added[2]
    /\ Len(last.out.val.Nexts) = 2

\* C6: GetStructure of a leaf, bar code or matrix code, returns its kind as
\* Type, its content as Value, its normalized properties as Details, and no
\* children.
C6_LeafStructure ==
    last.op = "LeafGetStructure" =>
        LET x == cols[last.tgt].components[last.idx]
        IN /\ last.out.Data.Type = x.kind
           /\ last.out.Data.Value = x.code
           /\ last.out.Data.Details = RectToMap(x.prop)
           /\ last.out.Nexts = <<>>

\* C7: NewCol returns a column of the given size holding the one leaf;
\* NewRow returns, for bar codes and matrix codes alike, a row of the given
\* height whose one column is auto-max and holds the one leaf, the same
\* column as New() then Add(leaf) builds.
C7_ConvenienceConstructors ==
    /\ last.op \in {"NewMatrixCol", "NewBarCol"} =>
           LET c == cols[last.tgt]
           IN /\ ~c.isMax
              /\ c.size = last.size
              /\ Len(c.components) = 1
              /\ c.components[1].code = last.in[1]
              /\ c = Add(New(<<last.size>>), c.components)
    /\ last.op \in {"NewMatrixRow", "NewBarRow"} =>
           LET r == rows[last.tgt]
           IN /\ r.height = last.height
              /\ Len(r.cols) = 1
              /\ LET c == cols[r.cols[1]]
                 IN /\ c.isMax
                    /\ Len(c.components) = 1
                    /\ c.components[1].code = last.in[1]
                    /\ c = Add(New(<<>>), c.components)

C9_LateAddHoldsConfig ==
    \A i \in DOMAIN cols : Configured(i) => HoldsConfig(cols[i], hist[i].lastCfg)

\* C10: the size of a configured column is within 0 .. MaxGridSize of its
\* config.
C10_SizeBound ==
    (last.op = "GetSize" /\ Configured(last.tgt)) =>
        /\ last.out.status = "ok"
        /\ 0 <= last.out.val
        /\ last.out.val <= cfgs[cols[last.tgt].config].MaxGridSize

=============================================================================
